---- MODULE Spec2Model ----
(***************************************************************************)
(* Model of torch/csrc/autograd/function.cpp: the flag resolver makeFlags  *)
(* and the trace bridge Function::tracedApply / setUpContextEdge.          *)
(***************************************************************************)
EXTENDS Integers, Sequences, FiniteSets, TLC

\* ------------------------------------------------------------------ bounds
MaxInputs == 3      \* longest input sequence handed to flags()
MaxCalls == 2       \* tracedApply calls started in one run
MaxDepth == 2       \* nesting depth of tracedApply calls made from inside apply
MaxArgs == 2        \* length of the input list of a tracedApply call
MaxOutputs == 2     \* longest output list an apply returns

\* ------------------------------------------------------- Variable (inputs)
NullFn == "null"                    \* an empty shared_ptr<Function>
GradFns == {"Fn1", "Fn2"}                  \* producing nodes a Variable may carry
Accumulators == {"Acc1", "Acc2"}            \* gradient accumulators of leaves

UndefinedVar ==
    [defined |-> FALSE, requires_grad |-> FALSE, is_volatile |-> FALSE,
     grad_fn |-> NullFn, output_nr |-> 0, grad_accumulator |-> NullFn]

LeafVars ==
    [defined : {TRUE}, requires_grad : BOOLEAN, is_volatile : BOOLEAN,
     grad_fn : {NullFn}, output_nr : {0}, grad_accumulator : Accumulators]

NonLeafVars ==
    [defined : {TRUE}, requires_grad : BOOLEAN, is_volatile : BOOLEAN,
     grad_fn : GradFns, output_nr : 0..1, grad_accumulator : {NullFn}]

FlagVariables == {UndefinedVar} \cup LeafVars \cup NonLeafVars

\* ------------------------------------------------------------- makeFlags
\* value-initialised std::pair<std::shared_ptr<Function>, int>
DefaultEdge == [fn |-> NullFn, nr |-> 0]

\* f.next_functions.resize(num_inputs)
ResizedEdges(num_inputs) == [i \in 1..num_inputs |-> DefaultEdge]

\* as NextFunction, but every edge is given slot 0
NextFunctionSlotZero(var) ==
    IF var.grad_fn # NullFn
    THEN [fn |-> var.grad_fn, nr |-> 0]
    ELSE [fn |-> var.grad_accumulator, nr |-> 0]

\* the pair stored for one defined input
NextFunction(var) ==
    IF var.grad_fn # NullFn
    THEN [fn |-> var.grad_fn, nr |-> var.output_nr]
    ELSE [fn |-> var.grad_accumulator, nr |-> 0]

\* the for loop over the inputs, position i (1-based here, 0-based in C++)
RECURSIVE makeFlagsLoop(_, _, _)
makeFlagsLoop(inputs, i, f) ==
    IF i > Len(inputs) THEN f
    ELSE LET var == inputs[i] IN
         makeFlagsLoop(inputs, i + 1,
            IF var.defined
            THEN [is_executable  |-> f.is_executable \/ var.requires_grad,
                  is_volatile    |-> f.is_volatile \/ var.is_volatile,
                  next_functions |-> [f.next_functions EXCEPT ![i] = NextFunction(var)]]
            ELSE f)

\* as makeFlags, without the closing is_executable &= !is_volatile
makeFlagsNoPoison(inputs) ==
    makeFlagsLoop(inputs, 1, [is_executable  |-> FALSE,
                              is_volatile    |-> FALSE,
                              next_functions |-> ResizedEdges(Len(inputs))])

\* as makeFlags, but only the defined inputs are given an edge slot
makeFlagsSkipUndefined(inputs) ==
    LET defd == SelectSeq(inputs, LAMBDA var : var.defined)
        f1 == makeFlagsLoop(defd, 1, [is_executable  |-> FALSE,
                                      is_volatile    |-> FALSE,
                                      next_functions |-> ResizedEdges(Len(defd))])
    IN  [f1 EXCEPT !.is_executable = f1.is_executable /\ ~f1.is_volatile]

\* as makeFlags, with is_executable &= !is_volatile placed before the loop
makeFlagsPoisonFirst(inputs) ==
    makeFlagsLoop(inputs, 1, [is_executable  |-> FALSE /\ ~FALSE,
                              is_volatile    |-> FALSE,
                              next_functions |-> ResizedEdges(Len(inputs))])

makeFlags(inputs) ==
    LET f0 == [is_executable  |-> FALSE,
               is_volatile    |-> FALSE,
               next_functions |-> ResizedEdges(Len(inputs))]
        f1 == makeFlagsLoop(inputs, 1, f0)
    IN  [f1 EXCEPT !.is_executable = f1.is_executable /\ ~f1.is_volatile]

\* ----------------------------------------------------- trace bridge data
Threads == {1, 2}                   \* threads sharing one TraceState
NoThread == 0                       \* the exclusive section is free
NoEval == "none"                    \* dynamic_cast<Eval*> yields nullptr
Evals == {"Eval1"}                  \* the Eval objects of the run
NoSavedVariables == <<"nullptr">>   \* saved_variables() not implemented
NoError == ""

\* values and trace values are triples <<tag, call, position>>
Undefined == <<"undef", 0, 0>>      \* an undefined Variable
NullTrace == <<"null", 0, 0>>       \* a null jit::Node*
InputValue(i) == <<"in", 0, i>>
OutputValue(c, i) == <<"out", c, i>>
SelectOf(c, slot) == <<"select", c, slot>>
CppOpOf(c) == <<"cppop", c, 0>>

\* the Function objects a call can be made on.  A field tracedApply never
\* reads for a node is held at one value: nothing but is_traceable() for a
\* traceable node, only the Eval cast after passes_state_transparently() =
\* true, and no saved_variables() when in_eval_subgraph is set (such a node
\* is one that does not implement it)
FunctionNodes ==
    { fn \in [is_traceable : BOOLEAN,
              passes_state_transparently : BOOLEAN,
              eval : {NoEval} \cup Evals,
              in_eval_subgraph : BOOLEAN,
              saved_variables : {NoSavedVariables, <<"saved1">>}] :
        /\ fn.is_traceable =>
              /\ ~fn.passes_state_transparently
              /\ fn.eval = NoEval
        /\ (fn.is_traceable \/ fn.passes_state_transparently) =>
              /\ ~fn.in_eval_subgraph
              /\ fn.saved_variables = NoSavedVariables
        /\ fn.in_eval_subgraph => fn.saved_variables = NoSavedVariables }

\* Function::name(): the name of the dynamic type
name(fn) == IF fn.eval # NoEval THEN "Eval" ELSE "CppFunction"

\* the input list of a call: MaxArgs distinct defined values (tracedApply
\* takes no branch on its inputs)
InputLists == { [i \in 1..MaxArgs |-> InputValue(i)] }

\* what apply can return in call c: any pattern of defined/undefined outputs
ApplyResults(c) ==
    UNION { { [i \in 1..n |-> IF d[i] THEN OutputValue(c, i - 1) ELSE Undefined] :
                d \in [1..n -> BOOLEAN] } : n \in 0..MaxOutputs }

\* as createCppOp, without the addInput loop
createCppOpNoInputs(c, vt, inputs) ==
    [kind |-> "CppOp", call |-> c, slot |-> 0, type |-> "none", inputs |-> <<>>]

\* tracer::getValueTrace(state, value): the recorded trace value, else a
\* fresh graph input for the value
getValueTrace(vt, value) ==
    IF \E p \in vt : p[1] = value
    THEN (CHOOSE p \in vt : p[1] = value)[2]
    ELSE <<"graph_input", value[2], value[3]>>

\* tracer::setValueTrace(state, value, node)
setValueTrace(vt, value, node) ==
    { p \in vt : p[1] # value } \cup { <<value, node>> }

\* graph->createCppOp(getSharedPtr()) followed by the addInput loop
createCppOp(c, vt, inputs) ==
    [kind |-> "CppOp", call |-> c, slot |-> 0, type |-> "none",
     inputs |-> [i \in 1..Len(inputs) |-> getValueTrace(vt, inputs[i])]]

\* graph->createSelect(node, i)
createSelect(c, i) ==
    [kind |-> "Select", call |-> c, slot |-> i, type |-> "none",
     inputs |-> <<CppOpOf(c)>>]

\* this_node->addInput(v) on the composite node of call c
addInput(g, c, v) ==
    [k \in 1..Len(g) |->
        IF g[k].kind = "CppOp" /\ g[k].call = c
        THEN [g[k] EXCEPT !.inputs = Append(@, v)]
        ELSE g[k]]

\* as should_trace_backward, with the sense its name suggests
should_trace_backward_inverted(fn) == ~fn.in_eval_subgraph

\* bool should_trace_backward = tracing_state->in_eval_subgraph
should_trace_backward(fn) == fn.in_eval_subgraph

\* as has_backwards_eval, without the Eval disjunct
has_backwards_eval_no_eval(fn) == ~should_trace_backward(fn)

\* as has_backwards_eval, with the capture test inverted
has_backwards_eval_when_skipped(fn) == should_trace_backward(fn) \/ fn.eval # NoEval

\* bool has_backwards_eval = !should_trace_backward || this_eval
has_backwards_eval(fn) == ~should_trace_backward(fn) \/ fn.eval # NoEval

NewFrame(fn, inputs, c) ==
    [fn |-> fn, inputs |-> inputs, call |-> c, pc |-> "entry",
     owns |-> FALSE, outputs |-> <<>>, applied |-> 0, i |-> 0,
     saved_called |-> FALSE, threw |-> FALSE, ret |-> <<>>, err |-> NoError,
     apply_args |-> <<>>, backward_eval |-> NoEval]

\* ------------------------------------------------------------------ state
VARIABLES flagInputs,   \* the input sequence a caller has assembled
          flagResult,   \* <<>> before flags() ran, else <<FunctionFlags>>
          graph,        \* state->graph: the nodes in append order
          valueTrace,   \* the value-to-trace-value associations
          owner,        \* the thread inside the TraceState's exclusive section
          forward_ctx_select,  \* Eval::forward_ctx_select of every Eval
          bwSubgraphs,  \* calls handed to tracer::nontraceableBackwardSubgraph
          calls,        \* tracedApply calls started so far
          stack         \* per thread: its tracedApply frames, innermost last

fvars == <<flagInputs, flagResult>>
tvars == <<graph, valueTrace, owner, forward_ctx_select, bwSubgraphs, calls, stack>>
vars == <<flagInputs, flagResult, graph, valueTrace, owner, forward_ctx_select,
          bwSubgraphs, calls, stack>>

FlagsInit ==
    /\ flagInputs = <<>>
    /\ flagResult = <<>>

TraceInit ==
    /\ graph = <<>>
    /\ valueTrace = {}
    /\ owner = NoThread
    /\ forward_ctx_select = [e \in Evals |-> NullTrace]
    /\ bwSubgraphs = {}
    /\ calls = 0
    /\ stack = [t \in Threads |-> <<>>]

Init == FlagsInit /\ TraceInit

\* the caller appends one more Variable to the prospective inputs
AddInput ==
    /\ flagResult = <<>>
    /\ Len(flagInputs) < MaxInputs
    /\ \E var \in FlagVariables : flagInputs' = Append(flagInputs, var)
    /\ UNCHANGED flagResult
    /\ UNCHANGED tvars

\* Function::flags(inputs)
CallFlags ==
    /\ flagResult = <<>>
    /\ flagResult' = <<makeFlags(flagInputs)>>
    /\ UNCHANGED flagInputs
    /\ UNCHANGED tvars

FlagsNext == AddInput \/ CallFlags
FlagsSpec == Init /\ [][FlagsNext]_vars

\* ------------------------------------------------------------ tracedApply
Depth(t) == Len(stack[t])
Top(t) == stack[t][Depth(t)]
At(t, pc) == Depth(t) > 0 /\ Top(t).pc = pc
SetTop(t, frame) == stack' = [stack EXCEPT ![t][Depth(t)] = frame]

\* a caller on thread t invokes fn->tracedApply(inputs)
Call(t) ==
    /\ Depth(t) = 0
    /\ calls < MaxCalls
    /\ \E fn \in FunctionNodes, inputs \in InputLists :
          stack' = [stack EXCEPT ![t] = <<NewFrame(fn, inputs, calls + 1)>>]
    /\ calls' = calls + 1
    /\ UNCHANGED <<graph, valueTrace, owner, forward_ctx_select, bwSubgraphs>>

\* the body of apply invokes tracedApply on another node
NestedCall(t) ==
    /\ At(t, "apply")
    /\ Depth(t) < MaxDepth
    /\ calls < MaxCalls
    /\ \E fn \in FunctionNodes, inputs \in InputLists :
          stack' = [stack EXCEPT ![t] = Append(@, NewFrame(fn, inputs, calls + 1))]
    /\ calls' = calls + 1
    /\ UNCHANGED <<graph, valueTrace, owner, forward_ctx_select, bwSubgraphs>>

\* if (is_traceable()) return apply(inputs);
DirectApply(t) ==
    /\ At(t, "entry")
    /\ Top(t).fn.is_traceable
    /\ \E outs \in ApplyResults(Top(t).call) :
          SetTop(t, [Top(t) EXCEPT !.pc = "returned", !.applied = @ + 1,
                                   !.apply_args = <<Top(t).inputs>>,
                                   !.outputs = outs, !.ret = <<outs>>])
    /\ UNCHANGED <<graph, valueTrace, owner, forward_ctx_select, bwSubgraphs, calls>>

\* as AcquireLock, without waiting for the section to be free
AcquireLockNoWait(t) ==
    /\ At(t, "entry")
    /\ ~Top(t).fn.is_traceable
    /\ owner' = t
    /\ SetTop(t, [Top(t) EXCEPT !.pc = "create", !.owns = TRUE])
    /\ UNCHANGED <<graph, valueTrace, forward_ctx_select, bwSubgraphs, calls>>

\* as AcquireLock, but taken by traceable nodes too
AcquireLockAnyNode(t) ==
    /\ At(t, "entry")
    /\ owner = NoThread
    /\ owner' = t
    /\ SetTop(t, [Top(t) EXCEPT !.pc = "create", !.owns = TRUE])
    /\ UNCHANGED <<graph, valueTrace, forward_ctx_select, bwSubgraphs, calls>>

\* auto state = tracer::getTracingState(inputs); auto state_lock = state->lock();
AcquireLock(t) ==
    /\ At(t, "entry")
    /\ ~Top(t).fn.is_traceable
    /\ owner = NoThread
    /\ owner' = t
    /\ SetTop(t, [Top(t) EXCEPT !.pc = "create", !.owns = TRUE])
    /\ UNCHANGED <<graph, valueTrace, forward_ctx_select, bwSubgraphs, calls>>

\* createCppOp, addInput for every input, appendNode
InsertCppOp(t) ==
    /\ At(t, "create")
    /\ graph' = Append(graph, createCppOp(Top(t).call, valueTrace, Top(t).inputs))
    /\ SetTop(t, [Top(t) EXCEPT !.pc = "unlock"])
    /\ UNCHANGED <<valueTrace, owner, forward_ctx_select, bwSubgraphs, calls>>

\* as UnlockBeforeApply, with the unlock left out
NoUnlockBeforeApply(t) ==
    /\ At(t, "unlock")
    /\ SetTop(t, [Top(t) EXCEPT !.pc = "apply"])
    /\ UNCHANGED <<graph, valueTrace, owner, forward_ctx_select, bwSubgraphs, calls>>

\* state_lock.unlock();
UnlockBeforeApply(t) ==
    /\ At(t, "unlock")
    /\ owner' = NoThread
    /\ SetTop(t, [Top(t) EXCEPT !.pc = "apply", !.owns = FALSE])
    /\ UNCHANGED <<graph, valueTrace, forward_ctx_select, bwSubgraphs, calls>>

\* variable_list outputs = apply(inputs);  (apply returns)
ApplyReturns(t) ==
    /\ At(t, "apply")
    /\ \E outs \in ApplyResults(Top(t).call) :
          SetTop(t, [Top(t) EXCEPT !.pc = "relock", !.applied = @ + 1,
                                   !.apply_args = <<Top(t).inputs>>,
                                   !.outputs = outs])
    /\ UNCHANGED <<graph, valueTrace, owner, forward_ctx_select, bwSubgraphs, calls>>

\* as Relock, with the lock() left out
NoRelock(t) ==
    /\ At(t, "relock")
    /\ SetTop(t, [Top(t) EXCEPT !.pc = "outputs", !.i = 0])
    /\ UNCHANGED <<graph, valueTrace, owner, forward_ctx_select, bwSubgraphs, calls>>

\* state_lock.lock();
Relock(t) ==
    /\ At(t, "relock")
    /\ owner = NoThread
    /\ owner' = t
    /\ SetTop(t, [Top(t) EXCEPT !.pc = "outputs", !.owns = TRUE, !.i = 0])
    /\ UNCHANGED <<graph, valueTrace, forward_ctx_select, bwSubgraphs, calls>>

\* as OutputTrace, but an undefined output gets no select node
OutputTraceSkipUndefined(t) ==
    /\ At(t, "outputs")
    /\ Top(t).i < Len(Top(t).outputs)
    /\ LET fr == Top(t)
           output == fr.outputs[fr.i + 1]
       IN  /\ graph' = IF output # Undefined
                       THEN Append(graph, [kind |-> "Select", call |-> fr.call,
                                           slot |-> fr.i, type |-> "tensor",
                                           inputs |-> <<CppOpOf(fr.call)>>])
                       ELSE graph
           /\ valueTrace' =
                 IF output # Undefined
                 THEN {p \in valueTrace : p[1] # output}
                         \cup {<<output, SelectOf(fr.call, fr.i)>>}
                 ELSE valueTrace
           /\ SetTop(t, [fr EXCEPT !.i = @ + 1])
    /\ UNCHANGED <<owner, forward_ctx_select, bwSubgraphs, calls>>

\* one pass of the output loop: appendNode(createSelect(this_node, i)),
\* and for a defined output inferTypeFrom and setValueTrace
OutputTrace(t) ==
    /\ At(t, "outputs")
    /\ Top(t).i < Len(Top(t).outputs)
    /\ LET fr == Top(t)
           output == fr.outputs[fr.i + 1]
           sel == createSelect(fr.call, fr.i)
       IN  /\ graph' = Append(graph,
                 IF output # Undefined THEN [sel EXCEPT !.type = "tensor"] ELSE sel)
           /\ valueTrace' =
                 IF output # Undefined
                 THEN setValueTrace(valueTrace, output, SelectOf(fr.call, fr.i))
                 ELSE valueTrace
           /\ SetTop(t, [fr EXCEPT !.i = @ + 1])
    /\ UNCHANGED <<owner, forward_ctx_select, bwSubgraphs, calls>>

\* the loop is over:  if (!passes_state_transparently()) {
\*   auto this_eval = dynamic_cast<Eval*>(this);
\*   if (this_eval) this_node->addInput(this_eval->forward_ctx_select);
\*   bool should_trace_backward = ...;  if (!should_trace_backward) {
EnterBridge(t) ==
    /\ At(t, "outputs")
    /\ Top(t).i >= Len(Top(t).outputs)
    /\ LET fn == Top(t).fn IN
       IF fn.passes_state_transparently
       THEN /\ SetTop(t, [Top(t) EXCEPT !.pc = "return"])
            /\ UNCHANGED graph
       ELSE /\ graph' = IF fn.eval # NoEval
                        THEN addInput(graph, Top(t).call, forward_ctx_select[fn.eval])
                        ELSE graph
            /\ SetTop(t, [Top(t) EXCEPT !.pc = IF ~should_trace_backward(fn)
                                               THEN "saved" ELSE "context"])
    /\ UNCHANGED <<valueTrace, owner, forward_ctx_select, bwSubgraphs, calls>>

\* as SavedVariables, but the throw leaves the section locked
SavedVariablesLeakLock(t) ==
    /\ At(t, "saved")
    /\ SetTop(t, IF Top(t).fn.saved_variables = NoSavedVariables
                 THEN [Top(t) EXCEPT !.pc = "failed", !.saved_called = TRUE,
                                     !.threw = TRUE, !.err = name(Top(t).fn)]
                 ELSE [Top(t) EXCEPT !.pc = "mark", !.saved_called = TRUE])
    /\ UNCHANGED <<graph, valueTrace, owner, forward_ctx_select, bwSubgraphs, calls>>

\* as SavedVariables, but the throw removes what the call put in the trace
SavedVariablesRollback(t) ==
    /\ At(t, "saved")
    /\ IF Top(t).fn.saved_variables = NoSavedVariables
       THEN /\ SetTop(t, [Top(t) EXCEPT !.pc = "failed", !.saved_called = TRUE,
                                        !.threw = TRUE, !.err = name(Top(t).fn),
                                        !.owns = FALSE])
            /\ owner' = NoThread
            /\ graph' = SelectSeq(graph, LAMBDA n : n.call # Top(t).call)
            /\ valueTrace' = {p \in valueTrace : p[2][2] # Top(t).call}
       ELSE /\ SetTop(t, [Top(t) EXCEPT !.pc = "mark", !.saved_called = TRUE])
            /\ UNCHANGED <<owner, graph, valueTrace>>
    /\ UNCHANGED <<forward_ctx_select, bwSubgraphs, calls>>

\* as SavedVariables, without the test of the result
SavedVariablesUnchecked(t) ==
    /\ At(t, "saved")
    /\ SetTop(t, [Top(t) EXCEPT !.pc = "mark", !.saved_called = TRUE])
    /\ UNCHANGED <<graph, valueTrace, owner, forward_ctx_select, bwSubgraphs, calls>>

\* auto saved_vars = saved_variables(); if (!saved_vars) throw ...;
\* the throw unwinds the frame, and state_lock's destructor unlocks
SavedVariables(t) ==
    /\ At(t, "saved")
    /\ IF Top(t).fn.saved_variables = NoSavedVariables
       THEN /\ SetTop(t, [Top(t) EXCEPT !.pc = "failed", !.saved_called = TRUE,
                                        !.threw = TRUE, !.err = name(Top(t).fn),
                                        !.owns = FALSE])
            /\ owner' = NoThread
       ELSE /\ SetTop(t, [Top(t) EXCEPT !.pc = "mark", !.saved_called = TRUE])
            /\ UNCHANGED owner
    /\ UNCHANGED <<graph, valueTrace, forward_ctx_select, bwSubgraphs, calls>>

\* bw_subgraph_inputs = inputs + the unpacked saved variables;
\* tracer::nontraceableBackwardSubgraph(bw_subgraph_inputs, outputs);
MarkBackward(t) ==
    /\ At(t, "mark")
    /\ bwSubgraphs' = bwSubgraphs \cup
          { [call |-> Top(t).call,
             inputs |-> Top(t).inputs \o
                 [k \in 1..Len(Top(t).fn.saved_variables) |-> <<"saved", Top(t).call, k>>],
             outputs |-> Top(t).outputs] }
    /\ SetTop(t, [Top(t) EXCEPT !.pc = "context"])
    /\ UNCHANGED <<graph, valueTrace, owner, forward_ctx_select, calls>>

\* as setUpContextEdge, with the select placed on the last real output slot
setUpContextEdgeLastSlot(c, ctx_output_nr, backward_eval) ==
    /\ graph' = Append(graph,
          [createSelect(c, ctx_output_nr - 1) EXCEPT !.type = "handle"])
    /\ forward_ctx_select' =
          IF backward_eval # NoEval
          THEN [forward_ctx_select EXCEPT
                   ![backward_eval] = SelectOf(c, ctx_output_nr - 1)]
          ELSE forward_ctx_select

\* Function::setUpContextEdge(node, ctx_output_nr, inputs, outputs), with
\* backward_eval the answer of Eval::getBackwardEval(inputs, outputs)
setUpContextEdge(c, ctx_output_nr, backward_eval) ==
    /\ graph' = Append(graph, [createSelect(c, ctx_output_nr) EXCEPT !.type = "handle"])
    /\ forward_ctx_select' =
          IF backward_eval # NoEval
          THEN [forward_ctx_select EXCEPT ![backward_eval] = SelectOf(c, ctx_output_nr)]
          ELSE forward_ctx_select

\* if (has_backwards_eval) setUpContextEdge(this_node, num_outputs, inputs, outputs);
ContextEdge(t) ==
    /\ At(t, "context")
    /\ IF has_backwards_eval(Top(t).fn)
       THEN \E backward_eval \in {NoEval} \cup Evals :
               /\ setUpContextEdge(Top(t).call, Len(Top(t).outputs), backward_eval)
               /\ SetTop(t, [Top(t) EXCEPT !.pc = "return",
                                           !.backward_eval = backward_eval])
       ELSE /\ UNCHANGED <<graph, forward_ctx_select>>
            /\ SetTop(t, [Top(t) EXCEPT !.pc = "return"])
    /\ UNCHANGED <<valueTrace, owner, bwSubgraphs, calls>>

\* as Return, but only the defined outputs are handed back
ReturnDefinedOnly(t) ==
    /\ At(t, "return")
    /\ owner' = NoThread
    /\ SetTop(t, [Top(t) EXCEPT !.pc = "returned", !.owns = FALSE,
                                !.ret = <<SelectSeq(Top(t).outputs,
                                             LAMBDA v : v # Undefined)>>])
    /\ UNCHANGED <<graph, valueTrace, forward_ctx_select, bwSubgraphs, calls>>

\* return outputs;  (state_lock's destructor unlocks)
Return(t) ==
    /\ At(t, "return")
    /\ owner' = NoThread
    /\ SetTop(t, [Top(t) EXCEPT !.pc = "returned", !.owns = FALSE,
                                !.ret = <<Top(t).outputs>>])
    /\ UNCHANGED <<graph, valueTrace, forward_ctx_select, bwSubgraphs, calls>>

\* the caller takes the result; an exception of a nested call leaves the
\* enclosing apply and with it the enclosing tracedApply
Finish(t) ==
    /\ Depth(t) > 0
    /\ Top(t).pc \in {"returned", "failed"}
    /\ LET callers == SubSeq(stack[t], 1, Depth(t) - 1) IN
       stack' = [stack EXCEPT ![t] =
          IF Depth(t) > 1 /\ Top(t).pc = "failed"
          THEN [callers EXCEPT ![Depth(t) - 1] =
                   [@ EXCEPT !.pc = "failed", !.err = Top(t).err]]
          ELSE callers]
    /\ UNCHANGED <<graph, valueTrace, owner, forward_ctx_select, bwSubgraphs, calls>>

tracedApply(t) ==
    \/ DirectApply(t)
    \/ AcquireLock(t)
    \/ InsertCppOp(t)
    \/ UnlockBeforeApply(t)
    \/ NestedCall(t)
    \/ ApplyReturns(t)
    \/ Relock(t)
    \/ OutputTrace(t)
    \/ EnterBridge(t)
    \/ SavedVariables(t)
    \/ MarkBackward(t)
    \/ ContextEdge(t)
    \/ Return(t)

Next ==
    /\ \E t \in Threads : Call(t) \/ tracedApply(t) \/ Finish(t)
    /\ UNCHANGED fvars

Spec == Init /\ [][Next]_vars

TypeOK ==
    /\ owner \in Threads \cup {NoThread}
    /\ calls \in 0..MaxCalls
    /\ \A t \in Threads : Depth(t) <= MaxDepth

\* ---------------------------------------------------------------- claims
FrameIds == { <<t, k>> \in Threads \X (1..MaxDepth) : k <= Depth(t) }
Frame(id) == stack[id[1]][id[2]]
Innermost(id) == id[2] = Depth(id[1])
Bridged(fr) == ~fr.fn.is_traceable
IsEval(fr) == fr.fn.eval # NoEval
Marked(c) == \E b \in bwSubgraphs : b.call = c
HasContextEdge(c, slot) ==
    \E k \in 1..Len(graph) :
        /\ graph[k].kind = "Select" /\ graph[k].call = c
        /\ graph[k].slot = slot /\ graph[k].type = "handle"
AnyContextEdge(c) ==
    \E k \in 1..Len(graph) :
        graph[k].kind = "Select" /\ graph[k].call = c /\ graph[k].type = "handle"
Mutating == {"create", "outputs", "saved", "mark", "context"}

\* C1: flags(inputs) returns isVolatile = (some defined input is volatile)
\* and isExecutable = (some defined input requires gradients) and not (some
\* defined input is volatile); undefined inputs contribute to neither flag.
C1_FlagsContract ==
    flagResult # <<>> =>
        LET f == flagResult[1]
            anyVolatile == \E i \in 1..Len(flagInputs) :
                flagInputs[i].defined /\ flagInputs[i].is_volatile
            anyRequires == \E i \in 1..Len(flagInputs) :
                flagInputs[i].defined /\ flagInputs[i].requires_grad
        IN  /\ f.is_volatile = anyVolatile
            /\ f.is_executable = (anyRequires /\ ~anyVolatile)

\* flags() ran on inputs where one requires gradients and another is volatile
C1_Witness ==
    /\ flagResult # <<>>
    /\ \E i, j \in 1..Len(flagInputs) :
          /\ flagInputs[i].defined /\ flagInputs[i].requires_grad
          /\ ~flagInputs[i].is_volatile
          /\ flagInputs[j].defined /\ flagInputs[j].is_volatile
    /\ ~flagResult[1].is_executable

\* C2: on a non-traceable node apply(inputs) runs while the calling thread
\* does not hold the exclusive section: the frame that is inside apply does
\* not own its lock, and unless a nested call of the same thread has taken
\* the section the thread is not its owner.
C2_ApplyOutsideLock ==
    \A id \in FrameIds :
        Frame(id).pc = "apply" =>
            /\ ~Frame(id).owns
            /\ Innermost(id) => owner # id[1]

\* a thread is inside apply while another thread is inside a mutation step
C2_Witness ==
    \E t, u \in Threads :
        /\ t # u
        /\ At(t, "apply")
        /\ owner = u
        /\ Depth(u) > 0 /\ Top(u).pc \in Mutating

\* C3 as stated: all nodes of one call (the composite node and its select
\* nodes) lie contiguously in the trace graph.
C3_AllNodesContiguous ==
    \A a, b, k \in 1..Len(graph) :
        (a < b /\ b < k /\ graph[a].call = graph[k].call) =>
            graph[b].call = graph[a].call

\* C3 (amended): the select nodes of one call lie contiguously in the trace
\* graph, all of them after the call's composite node.
C3_SelectsContiguous ==
    /\ \A a, b, k \in 1..Len(graph) :
          (/\ a < b /\ b < k
           /\ graph[a].kind = "Select" /\ graph[k].kind = "Select"
           /\ graph[a].call = graph[k].call) =>
              graph[b].call = graph[a].call
    /\ \A a, b \in 1..Len(graph) :
          (/\ graph[a].kind = "CppOp" /\ graph[b].kind = "Select"
           /\ graph[a].call = graph[b].call) => a < b

\* two select nodes of one call follow nodes of another call, which follow
\* the call's composite node
C3_Witness ==
    \E a, b, k \in 1..Len(graph) :
        /\ a < b /\ b < k /\ k < Len(graph)
        /\ graph[a].kind = "CppOp"
        /\ graph[b].call # graph[a].call
        /\ graph[k].kind = "Select" /\ graph[k].call = graph[a].call
        /\ graph[k + 1].kind = "Select" /\ graph[k + 1].call = graph[a].call

\* C4: a non-traceable node with passes_state_transparently() = false, not
\* in an Eval subgraph, whose saved_variables() returns nothing: the call
\* never hands a subgraph to nontraceableBackwardSubgraph, never gets a
\* context edge and never returns outputs; it throws only after apply has
\* returned, and once apply has returned the call ends in the failure that
\* carries the node's name.
C4_MissingCaptureFails ==
    \A id \in FrameIds :
        LET fr == Frame(id) IN
        (/\ Bridged(fr) /\ ~fr.fn.passes_state_transparently
         /\ ~fr.fn.in_eval_subgraph
         /\ fr.fn.saved_variables = NoSavedVariables) =>
            /\ ~Marked(fr.call)
            /\ ~AnyContextEdge(fr.call)
            /\ fr.ret = <<>>
            /\ fr.pc \notin {"mark", "context", "return", "returned"}
            /\ fr.threw => (fr.applied = 1 /\ fr.pc = "failed" /\ fr.err = name(fr.fn))
            /\ (fr.pc = "failed" /\ fr.applied = 1) => fr.threw

\* such a call has failed at saved_variables(), after apply returned outputs
C4_Witness ==
    \E id \in FrameIds :
        LET fr == Frame(id) IN
        /\ Bridged(fr) /\ ~fr.fn.passes_state_transparently
        /\ ~fr.fn.in_eval_subgraph
        /\ fr.fn.saved_variables = NoSavedVariables
        /\ fr.pc = "failed" /\ fr.threw
        /\ Len(fr.outputs) > 0

\* C5 as stated: every ended tracedApply call on a non-traceable Eval node
\* has a context edge at the slot after its real outputs.
C5_EveryEvalHasContextEdge ==
    \A id \in FrameIds :
        LET fr == Frame(id) IN
        (/\ Bridged(fr) /\ IsEval(fr)
         /\ (fr.pc = "returned" \/ fr.threw)) =>
            HasContextEdge(fr.call, Len(fr.outputs))

\* C5 (amended): every tracedApply call on a non-traceable Eval node with
\* passes_state_transparently() = false that returns has a context edge at
\* the slot after its real outputs, whatever in_eval_subgraph is.
C5_ReturnedEvalHasContextEdge ==
    \A id \in FrameIds :
        LET fr == Frame(id) IN
        (/\ Bridged(fr) /\ IsEval(fr)
         /\ ~fr.fn.passes_state_transparently
         /\ fr.pc \in {"return", "returned"}) =>
            HasContextEdge(fr.call, Len(fr.outputs))

\* an Eval inside another Eval's subgraph has returned with its context edge
C5_Witness ==
    \E id \in FrameIds :
        LET fr == Frame(id) IN
        /\ Bridged(fr) /\ IsEval(fr)
        /\ ~fr.fn.passes_state_transparently
        /\ fr.fn.in_eval_subgraph
        /\ fr.pc = "returned"
        /\ HasContextEdge(fr.call, Len(fr.outputs))

\* C6 as stated: with passes_state_transparently() = false, a returned call
\* whose backward capture was skipped, or whose node is an Eval, has a
\* context edge.
C6_ContextEdgeWhenSkipped ==
    \A id \in FrameIds :
        LET fr == Frame(id) IN
        (/\ Bridged(fr) /\ ~fr.fn.passes_state_transparently
         /\ fr.pc = "returned"
         /\ (~fr.saved_called \/ IsEval(fr))) =>
            HasContextEdge(fr.call, Len(fr.outputs))

\* C6 (amended): with passes_state_transparently() = false, a returned call
\* has a context edge exactly when its backward capture was performed or
\* its node is an Eval.
C6_ContextEdgeWhenCaptured ==
    \A id \in FrameIds :
        LET fr == Frame(id) IN
        (/\ Bridged(fr) /\ ~fr.fn.passes_state_transparently
         /\ fr.pc = "returned") =>
            (HasContextEdge(fr.call, Len(fr.outputs))
                <=> (Marked(fr.call) \/ IsEval(fr)))

\* a node that is no Eval has returned after its capture, with a context edge
C6_Witness ==
    \E id \in FrameIds :
        LET fr == Frame(id) IN
        /\ Bridged(fr) /\ ~fr.fn.passes_state_transparently
        /\ ~IsEval(fr)
        /\ fr.pc = "returned"
        /\ Marked(fr.call)
        /\ HasContextEdge(fr.call, Len(fr.outputs))

\* C7: for every defined input at position i, flags(inputs) sets edge i to
\* (producing node, recorded output slot) when the input has a producing
\* node and to (gradient accumulator, 0) when it is a leaf.
C7_EdgeTargets ==
    flagResult # <<>> =>
        \A i \in 1..Len(flagInputs) :
            LET var == flagInputs[i]
                edge == flagResult[1].next_functions[i]
            IN  var.defined =>
                    /\ var.grad_fn # NullFn =>
                          (edge.fn = var.grad_fn /\ edge.nr = var.output_nr)
                    /\ var.grad_fn = NullFn =>
                          (edge.fn = var.grad_accumulator /\ edge.nr = 0)

\* flags() ran on a leaf followed by a non-leaf produced at output slot 1
C7_Witness ==
    /\ flagResult # <<>>
    /\ Len(flagInputs) >= 2
    /\ flagInputs[1].defined /\ flagInputs[1].grad_fn = NullFn
    /\ flagInputs[2].defined /\ flagInputs[2].grad_fn # NullFn
    /\ flagInputs[2].output_nr = 1
    /\ flagResult[1].next_functions[2].nr = 1

\* C8: a call on a traceable node only runs apply: it never owns the
\* exclusive section, no node, value trace or forward_ctx_select of the
\* trace state stems from it, and what it returns is the result of its one
\* apply(inputs).
C8_TraceableBypass ==
    \A id \in FrameIds :
        LET fr == Frame(id) IN
        fr.fn.is_traceable =>
            /\ ~fr.owns
            /\ fr.pc \in {"entry", "returned"}
            /\ \A k \in 1..Len(graph) : graph[k].call # fr.call
            /\ \A p \in valueTrace : p[1][2] # fr.call /\ p[2][2] # fr.call
            /\ \A e \in Evals : forward_ctx_select[e][2] # fr.call
            /\ ~Marked(fr.call)
            /\ fr.pc = "returned" =>
                  (fr.applied = 1 /\ fr.ret = <<fr.outputs>>)

\* a traceable node has returned two outputs while the trace graph holds
\* nodes of another call
C8_Witness ==
    \E id \in FrameIds :
        LET fr == Frame(id) IN
        /\ fr.fn.is_traceable
        /\ fr.pc = "returned"
        /\ Len(fr.outputs) = 2
        /\ Len(graph) > 0

\* C9: inside another Eval's subgraph a non-traceable node with
\* passes_state_transparently() = false never calls saved_variables(), never
\* hands a subgraph to nontraceableBackwardSubgraph and never throws; once
\* apply has returned the call returns apply's outputs.
C9_NestedCaptureSkipped ==
    \A id \in FrameIds :
        LET fr == Frame(id) IN
        (/\ Bridged(fr) /\ ~fr.fn.passes_state_transparently
         /\ fr.fn.in_eval_subgraph) =>
            /\ ~fr.saved_called
            /\ ~Marked(fr.call)
            /\ ~fr.threw
            /\ fr.pc \notin {"saved", "mark"}
            /\ fr.pc = "failed" => fr.applied = 0
            /\ fr.pc = "returned" => (fr.applied = 1 /\ fr.ret = <<fr.outputs>>)

\* a node without saved_variables() has returned its outputs from inside
\* another Eval's subgraph
C9_Witness ==
    \E id \in FrameIds :
        LET fr == Frame(id) IN
        /\ Bridged(fr) /\ ~fr.fn.passes_state_transparently
        /\ fr.fn.in_eval_subgraph
        /\ fr.fn.saved_variables = NoSavedVariables
        /\ fr.pc = "returned"
        /\ Len(fr.outputs) > 0

\* C10: the edge table returned by flags(inputs) is as long as the input
\* sequence, and the slot of every undefined input holds the default edge.
C10_EdgeTableLength ==
    flagResult # <<>> =>
        /\ Len(flagResult[1].next_functions) = Len(flagInputs)
        /\ \A i \in 1..Len(flagInputs) :
              ~flagInputs[i].defined =>
                  flagResult[1].next_functions[i] = DefaultEdge

\* flags() ran on an undefined input between two defined ones
C10_Witness ==
    /\ flagResult # <<>>
    /\ Len(flagInputs) = 3
    /\ flagInputs[1].defined
    /\ ~flagInputs[2].defined
    /\ flagInputs[3].defined
    /\ flagResult[1].next_functions[3].fn # NullFn

\* the program points at which a frame is between lock() and unlock()
Held == {"create", "unlock", "outputs", "saved", "mark", "context", "return"}
\* the program points after the output loop
PastOutputs == {"saved", "mark", "context", "return", "returned"}
CppOps(c) == SelectSeq(graph, LAMBDA n : n.kind = "CppOp" /\ n.call = c)
OutputSelects(c) ==
    SelectSeq(graph, LAMBDA n : n.kind = "Select" /\ n.call = c /\ n.type # "handle")
ContextSelects(c) ==
    SelectSeq(graph, LAMBDA n : n.kind = "Select" /\ n.call = c /\ n.type = "handle")

\* C11: every step of tracedApply and setUpContextEdge that touches the
\* shared trace state is taken by a frame that owns the lock while its
\* thread is the owner of the exclusive section, so two threads are never
\* both inside such steps.
C11_MutationUnderLock ==
    /\ \A id \in FrameIds :
          Frame(id).pc \in Held => (Frame(id).owns /\ owner = id[1])
    /\ \A t, u \in Threads :
          (t # u /\ Depth(t) > 0 /\ Depth(u) > 0) =>
              ~(Top(t).pc \in Held /\ Top(u).pc \in Held)

\* a thread sets up its context edge while the other waits to retake the
\* section
C11_Witness ==
    \E t, u \in Threads :
        /\ t # u
        /\ At(t, "context") /\ Top(t).owns /\ owner = t
        /\ At(u, "relock")

\* C12: the FunctionFlags returned by flags(inputs) never has is_executable
\* and is_volatile both true.
C12_ExecutableNotVolatile ==
    flagResult # <<>> =>
        ~(flagResult[1].is_executable /\ flagResult[1].is_volatile)

\* flags() ran on a volatile input that requires gradients
C12_Witness ==
    /\ flagResult # <<>>
    /\ \E i \in 1..Len(flagInputs) :
          /\ flagInputs[i].defined /\ flagInputs[i].requires_grad
          /\ flagInputs[i].is_volatile
    /\ flagResult[1].is_volatile

\* C13: a call on a non-traceable node that returns has invoked apply once,
\* on the caller's unmodified inputs, and returns the outputs apply produced;
\* no call invokes apply more than once.
C13_ReturnsApplyOutputs ==
    \A id \in FrameIds :
        LET fr == Frame(id) IN
        Bridged(fr) =>
            /\ fr.applied <= 1
            /\ fr.inputs \in InputLists
            /\ fr.pc = "returned" =>
                  /\ fr.applied = 1
                  /\ fr.apply_args = <<fr.inputs>>
                  /\ fr.ret = <<fr.outputs>>

\* a bridged call with a context edge has returned an undefined and a
\* defined output
C13_Witness ==
    \E id \in FrameIds :
        LET fr == Frame(id) IN
        /\ Bridged(fr)
        /\ fr.pc = "returned"
        /\ Len(fr.outputs) = 2
        /\ fr.outputs[1] = Undefined /\ fr.outputs[2] # Undefined
        /\ HasContextEdge(fr.call, 2)
        /\ fr.ret = <<fr.outputs>>

\* C14: the output selects of a call are one per output position handled so
\* far, in increasing position, each on the call's composite node, also for
\* an undefined output; a type and a value trace are recorded for output i
\* exactly when output i is defined.
C14_OneSelectPerOutput ==
    \A id \in FrameIds :
        LET fr == Frame(id)
            sels == OutputSelects(fr.call)
            handled == IF fr.pc = "outputs" THEN fr.i
                       ELSE IF fr.pc \in PastOutputs \/ fr.threw
                            THEN Len(fr.outputs) ELSE 0
        IN  Bridged(fr) =>
            /\ Len(sels) = handled
            /\ \A k \in 1..handled :
                  LET defined == fr.outputs[k] # Undefined IN
                  /\ sels[k].slot = k - 1
                  /\ sels[k].inputs = <<CppOpOf(fr.call)>>
                  /\ (sels[k].type = "tensor") <=> defined
                  /\ (<<fr.outputs[k], SelectOf(fr.call, k - 1)>> \in valueTrace)
                        <=> defined
                  /\ ~defined =>
                        \A p \in valueTrace : p[2] # SelectOf(fr.call, k - 1)

\* the loop has run over an undefined output followed by a defined one
C14_Witness ==
    \E id \in FrameIds :
        LET fr == Frame(id) IN
        /\ Bridged(fr)
        /\ fr.pc \in PastOutputs
        /\ Len(fr.outputs) = 2
        /\ fr.outputs[1] = Undefined /\ fr.outputs[2] # Undefined
        /\ Len(OutputSelects(fr.call)) = 2

\* C15: a step that establishes a context edge for a call with n outputs
\* appends exactly one select node, on the call's composite node at slot n
\* and typed as a handle; the Eval found by getBackwardEval gets that select
\* as its forward_ctx_select, and when none is found, or no context edge is
\* set up, no forward_ctx_select changes.
C15_ContextEdgeLinks ==
    [][\A t \in Threads :
          (At(t, "context") /\ stack'[t] # stack[t]) =>
              LET fr == Top(t)
                  n == Len(fr.outputs)
                  found == stack'[t][Depth(t)].backward_eval
              IN  IF graph' # graph
                  THEN /\ graph' = Append(graph,
                             [kind |-> "Select", call |-> fr.call, slot |-> n,
                              type |-> "handle", inputs |-> <<CppOpOf(fr.call)>>])
                       /\ forward_ctx_select' =
                             [e \in Evals |->
                                 IF e = found THEN SelectOf(fr.call, n)
                                 ELSE forward_ctx_select[e]]
                  ELSE forward_ctx_select' = forward_ctx_select]_vars

\* the context edge of a call with two outputs is in place and the Eval
\* found for the call points at it
C15_Witness ==
    \E id \in FrameIds :
        LET fr == Frame(id) IN
        /\ fr.pc = "return"
        /\ Len(fr.outputs) = 2
        /\ fr.backward_eval # NoEval
        /\ HasContextEdge(fr.call, 2)
        /\ Len(ContextSelects(fr.call)) = 1
        /\ forward_ctx_select[fr.backward_eval] = SelectOf(fr.call, 2)

\* C16: a call on a non-traceable node has no composite node before it
\* inserts one and exactly one from then on, in the graph before apply is
\* invoked, with one input per call input in input order; the composite node
\* has one more input exactly when the node is an Eval with
\* passes_state_transparently() = false and the output loop is over.
C16_OneCompositeNode ==
    \A id \in FrameIds :
        LET fr == Frame(id)
            cpp == CppOps(fr.call)
        IN  Bridged(fr) =>
            IF fr.pc \in {"entry", "create"}
            THEN Len(cpp) = 0
            ELSE /\ Len(cpp) = 1
                 /\ Len(cpp[1].inputs) >= Len(fr.inputs)
                 /\ \A i \in 1..Len(fr.inputs) :
                       cpp[1].inputs[i] = getValueTrace(valueTrace, fr.inputs[i])
                 /\ (Len(cpp[1].inputs) = Len(fr.inputs) + 1) <=>
                       (/\ IsEval(fr) /\ ~fr.fn.passes_state_transparently
                        /\ (fr.pc \in PastOutputs \/ fr.threw))
                 /\ Len(cpp[1].inputs) <= Len(fr.inputs) + 1
                 /\ Len(cpp[1].inputs) > Len(fr.inputs) =>
                       Len(OutputSelects(fr.call)) = Len(fr.outputs)

\* an Eval's composite node has its two inputs and the context input after
\* two output selects
C16_Witness ==
    \E id \in FrameIds :
        LET fr == Frame(id) IN
        /\ Bridged(fr) /\ IsEval(fr)
        /\ fr.pc = "returned"
        /\ Len(fr.outputs) = 2
        /\ Len(CppOps(fr.call)) = 1
        /\ Len(CppOps(fr.call)[1].inputs) = Len(fr.inputs) + 1

\* C17: once a call has ended, by return or by failure, its frame does not
\* own the lock and its thread is not the owner of the exclusive section;
\* a thread outside every call is not the owner either.
C17_EndedCallHoldsNothing ==
    /\ \A id \in FrameIds :
          Frame(id).pc \in {"returned", "failed"} =>
              (~Frame(id).owns /\ owner # id[1])
    /\ \A t \in Threads : Depth(t) = 0 => owner # t

\* a call has failed at saved_variables() and the other thread is inside
\* the exclusive section
C17_Witness ==
    \E t, u \in Threads :
        /\ t # u
        /\ At(t, "failed") /\ Top(t).threw
        /\ owner = u

\* C18: after the failure at saved_variables() the trace state still holds
\* the call's composite node, its output selects, the value traces of its
\* defined outputs and, for an Eval, the extra context input.
C18_NoRollbackOnFailure ==
    \A id \in FrameIds :
        LET fr == Frame(id) IN
        fr.threw =>
            /\ Len(CppOps(fr.call)) = 1
            /\ Len(OutputSelects(fr.call)) = Len(fr.outputs)
            /\ \A k \in 1..Len(fr.outputs) :
                  fr.outputs[k] # Undefined =>
                      <<fr.outputs[k], SelectOf(fr.call, k - 1)>> \in valueTrace
            /\ IsEval(fr) =>
                  Len(CppOps(fr.call)[1].inputs) = Len(fr.inputs) + 1

\* an Eval with two outputs, one of them defined, has failed
C18_Witness ==
    \E id \in FrameIds :
        LET fr == Frame(id) IN
        /\ fr.threw /\ IsEval(fr)
        /\ Len(fr.outputs) = 2
        /\ fr.outputs[2] # Undefined
        /\ Len(graph) >= 3

ThreadStep(t) == (tracedApply(t) \/ Finish(t)) /\ UNCHANGED fvars

\* the runs followed for termination: apply returns defined outputs only
\* (whether an output is defined decides no branch but the value trace)
LiveScope ==
    \A t \in Threads : \A k \in 1..Depth(t) :
        \A i \in 1..Len(stack[t][k].outputs) : stack[t][k].outputs[i] # Undefined

LiveNext == Next /\ LiveScope'
LiveStep(t) == ThreadStep(t) /\ LiveScope'

\* the scheduler lets every thread that can take a step of its call take
\* one, and apply bodies terminate
Fairness == \A t \in Threads : WF_vars(LiveStep(t))
LiveSpec == Init /\ [][LiveNext]_vars /\ Fairness

CanStep(t) == ENABLED ThreadStep(t)

\* a thread inside a call can take a step, or waits for the exclusive
\* section while another thread, which can take a step, is its owner
NoDeadlock ==
    \A t \in Threads :
        Depth(t) > 0 =>
            \/ CanStep(t)
            \/ /\ owner \in Threads \ {t}
               /\ CanStep(owner)

\* C19: no deadlock is reachable with threads and nested calls sharing one
\* TraceState, and under fair scheduling with terminating apply bodies every
\* tracedApply call, nested ones included, eventually returns or fails and
\* is left.
C19_NoDeadlockAndTermination ==
    /\ []NoDeadlock
    /\ \A t \in Threads : \A k \in 1..MaxDepth :
          (Depth(t) >= k) ~> (Depth(t) < k)

\* a nested call is inside the exclusive section while its own caller is
\* inside apply without owning the lock
C19_Witness ==
    \E t \in Threads :
        /\ Depth(t) = 2
        /\ stack[t][1].pc = "apply" /\ ~stack[t][1].owns
        /\ Top(t).pc = "outputs" /\ Top(t).owns
        /\ owner = t
        /\ CanStep(t)
====
